---- MODULE Spec2Model ----
(***************************************************************************)
(* The master loop of antnest (src/master.py, Master.worker) together with *)
(* the Job / Splitter / Combiner objects of src/job.py it drives.          *)
(*                                                                         *)
(* One action per branch of the loop body: a step is the handling of one   *)
(* received message, from the receive at line 67 to the return to the top  *)
(* of the `while True`.  An uncaught exception leaves the loop for good    *)
(* (worker() has no try/except): pc = "crashed", error = the exception.    *)
(*                                                                         *)
(* The modules schedule, taskunit, node, message and messenger are         *)
(* imported by master.py but are not part of the sources at hand; the few  *)
(* operators that stand for them follow sections 3, 4.4 - 4.6 of the       *)
(* specification and are marked as such where they are defined.            *)
(***************************************************************************)
EXTENDS Integers, Sequences, FiniteSets, TLC

(***************************************************************************)
(* Bounds and input sets                                                   *)
(***************************************************************************)
\* Number of messages the loop handles in one behaviour.
MaxMsgs == 5

NL == "\n"

\* Longest input text given to a Splitter.split call checked on its own.
MaxLen == 4

\* Longest data and processor source given to an id computation checked on
\* its own.
MaxIdLen == 2

\* The characters of those str, and the str.
IdChars == {"a", "U+00E9"}
IdTexts == UNION { [1..k -> IdChars] : k \in 0..MaxIdLen }

\* The source texts of the splitter's and the combiner's methods.
SPLIT_CODE == << "s" >>
COMBINE_CODE == << "c" >>

\* Most units in a Combiner's working list, and most combine() calls, of a
\* Combiner checked on its own.
MaxUnits == 3
MaxCombines == 2

\* The characters of those texts, and the texts.
SplitChars == {"a", "b", NL}
SplitTexts == UNION { [1..k -> SplitChars] : k \in 0..MaxLen }

\* Source addresses of incoming messages.
Addrs == {"w1", "w2"}

\* Job ids carried by JOB messages.
JobIds == {"j1", "j2"}

\* Input texts, as sequences of characters: one line, two distinct lines,
\* a repeated line, and the specification's example "a\nb\n".
JobInputs ==
    { <<"a">>, <<"a", NL, "b">>, <<"a", NL, "a">>, <<"a", NL, "b", NL>> }

\* Source texts of the processors shipped with a job.
ProcessorSources == { <<"p">> }

\* Status codes a STATUS message may carry.
STATE_UP == "UP"
STATE_DOWN == "DOWN"
StatusCodes == {STATE_UP, STATE_DOWN, "OTHER"}

\* Message type tags; "OTHER" stands for any tag that is none of the three.
MSG_STATUS == "STATUS"
MSG_JOB == "JOB"
MSG_TASKUNIT_RESULT == "TASKUNIT_RESULT"
OtherTypes == {"OTHER"}

\* The value of split_run, id_run and combiner_run while the master runs.
NotRun == [ done |-> FALSE ]

\* Python's None for a job id, a unit id and a result.
NoneJobId == "None"
NoneId == <<>>
NoneResult == <<>>

\* Results and states a TASKUNIT_RESULT message may carry.
ResultValues == {1, 2}
ResultStates == {"completed"}
STATE_CREATED == "created"

VARIABLES
    pc,                \* "polling": at the top of the loop; "crashed": left it
    error,             \* the uncaught exception that ended the loop, or "none"
    slave_nodes,       \* self.slave_nodes: sequence of RemoteNode
    scheduler,         \* self.scheduler: MinMakespan's per-slot loads
    destinations,      \* self.messenger: destination name -> address
    outbound,          \* self.messenger: the send_taskunit calls, in order
    jobs,              \* self.jobs: job id -> Job
    nmsgs,             \* history: number of messages handled
    arrived,           \* history: <<job_id, id>> of TASKUNIT_RESULT messages received
    late_registration, \* history: a worker registered after a unit was scheduled
    decisions,         \* history: the schedule_job calls that returned, in order
    split_run,         \* a Splitter.split call on its own: input and units yielded
    id_run,            \* two compute_taskunit_id / compute_job_id calls on their own
    combiner_run       \* a Combiner on its own: working list and files written

\* The state of the master loop.
master_vars == << pc, error, slave_nodes, scheduler, destinations, outbound, jobs,
                  nmsgs, arrived, late_registration, decisions >>

vars == << pc, error, slave_nodes, scheduler, destinations, outbound, jobs,
           nmsgs, arrived, late_registration, decisions,
           split_run, id_run, combiner_run >>

(***************************************************************************)
(* Helpers                                                                 *)
(***************************************************************************)
\* d[k] = v  on a Python dict d.
DictPut(d, k, v) == [x \in DOMAIN d \cup {k} |-> IF x = k THEN v ELSE d[x]]

RECURSIVE SeqSum(_)
SeqSum(s) == IF s = <<>> THEN 0 ELSE Head(s) + SeqSum(Tail(s))

SeqMax(s) == CHOOSE m \in {s[i] : i \in 1..Len(s)} : \A i \in 1..Len(s) : s[i] <= m
SeqMin(s) == CHOOSE m \in {s[i] : i \in 1..Len(s)} : \A i \in 1..Len(s) : m <= s[i]

(***************************************************************************)
(* job.py: Splitter                                                        *)
(***************************************************************************)
\* str.split('\n'): cut at every separator, empty pieces kept.
RECURSIVE str_split_acc(_, _, _)
str_split_acc(s, cur, acc) ==
    IF s = <<>> THEN Append(acc, cur)
    ELSE IF Head(s) = NL THEN str_split_acc(Tail(s), <<>>, Append(acc, cur))
    ELSE str_split_acc(Tail(s), Append(cur, Head(s)), acc)

\* str.splitlines()-like cutting: a trailing empty piece is dropped.
str_splitlines(s) ==
    LET r == str_split_acc(s, <<>>, <<>>)
    IN IF r[Len(r)] = <<>> THEN SubSeq(r, 1, Len(r) - 1) ELSE r

str_split(s) == str_split_acc(s, <<>>, <<>>)

\* taskunit.TaskUnit(data=..., processor=...): every other attribute is unset.
TaskUnit(data, processor) ==
    [ id |-> NoneId, job_id |-> NoneJobId, data |-> data, processor |-> processor,
      result |-> NoneResult, state |-> STATE_CREATED ]

\* Splitter.split: one TaskUnit per line, in order.
split(input_data, processor) ==
    LET input_lines == str_split(input_data)
    IN [i \in 1..Len(input_lines) |-> TaskUnit(input_lines[i], processor)]

(***************************************************************************)
(* Identity                                                                *)
(***************************************************************************)
\* hashlib.md5(b).hexdigest(), the digest taken as collision-free.
md5_hexdigest(b) == <<"md5", b>>

\* One character as UTF-8: an ASCII character is the byte of the same name,
\* U+00E9 is the two bytes c3 a9.
utf8_char(ch) == IF ch = "U+00E9" THEN << "c3", "a9" >> ELSE << ch >>

\* bytes(s, 'UTF-8') of a str s.
RECURSIVE str_to_bytes(_)
str_to_bytes(s) ==
    IF s = <<>> THEN <<>> ELSE utf8_char(Head(s)) \o str_to_bytes(Tail(s))

\* Lines 18-36 of job.py: a bytes argument as it is, a str encoded.
to_bytes(x) == IF x.is_bytes THEN x.v ELSE str_to_bytes(x.v)

\* A str and a bytes argument.
Str(s) == [ is_bytes |-> FALSE, v |-> s ]
Bytes(b) == [ is_bytes |-> TRUE, v |-> b ]

\* job.py 10-44: the digest of the four byte strings, concatenated in order.
compute_job_id(input_data, processor_code, split_code, combine_code) ==
    md5_hexdigest(to_bytes(input_data) \o to_bytes(processor_code)
                  \o to_bytes(split_code) \o to_bytes(combine_code))

\* taskunit.compute_taskunit_id: the same scheme over two inputs, here two
\* str: the digest of the concatenated bytes.
compute_taskunit_id(data, processor_code) ==
    md5_hexdigest(to_bytes(Str(data)) \o to_bytes(Str(processor_code)))

(***************************************************************************)
(* job.py: Job, Combiner                                                   *)
(***************************************************************************)
\* Combiner(): an empty working list; ncombine counts the combine() calls.
Combiner == [ taskunits |-> <<>>, ncombine |-> 0 ]

\* A Job that takes over the table's entry of the same id, if there is one.
JobKeepingEntry(id, input_data, processor) ==
    IF id \in DOMAIN jobs
    THEN [jobs[id] EXCEPT !.input_data = input_data, !.processor = processor,
                          !.pending_set = FALSE]
    ELSE [ id |-> id, input_data |-> input_data, processor |-> processor,
           taskunits |-> <<>>, combiner |-> Combiner,
           pending_set |-> FALSE, pending_taskunits |-> 0 ]

\* Job.deserialize of a JOB payload: the task unit map is empty and
\* pending_taskunits is not an attribute yet (pending_set = FALSE).
Job(id, input_data, processor) ==
    [ id |-> id, input_data |-> input_data, processor |-> processor,
      taskunits |-> <<>>, combiner |-> Combiner,
      pending_set |-> FALSE, pending_taskunits |-> 0 ]

(***************************************************************************)
(* Scheduler (schedule.MinMakespan), node.RemoteNode, Messenger            *)
(***************************************************************************)
\* add_machine(): a new slot with zero load.
add_machine(loads) == Append(loads, 0)

\* A scheduler that always picks the first slot.
FirstSlot(loads) == 0

\* The least loaded slot, the highest index among ties.
LastMinSlot(loads) ==
    CHOOSE i \in 0..(Len(loads) - 1) :
        \A k \in 0..(Len(loads) - 1) :
            /\ loads[i + 1] <= loads[k + 1]
            /\ (k > i => loads[i + 1] < loads[k + 1])

\* The 0-based index of the least loaded slot, the lowest index among ties.
MinLoadSlot(loads) ==
    CHOOSE i \in 0..(Len(loads) - 1) :
        \A k \in 0..(Len(loads) - 1) :
            /\ loads[i + 1] <= loads[k + 1]
            /\ (k < i => loads[i + 1] < loads[k + 1])

\* schedule_job(tu): pick the slot, add the unit cost 1, return the index.
\* With no slot there is nothing to pick: an error.
schedule_job(loads) ==
    IF Len(loads) = 0
    THEN [ ok |-> FALSE, index |-> 0, loads |-> loads ]
    ELSE LET i == MinLoadSlot(loads)
         IN [ ok |-> TRUE, index |-> i, loads |-> [loads EXCEPT ![i + 1] = @ + 1] ]

\* node.RemoteNode(None, address)
RemoteNode(address) == [ address |-> address ]

\* Master.get_node_address / the .address read at line 100.
get_node_address(node) == node.address

\* messenger.register_destination(name, address)
register_destination(dests, name, address) == DictPut(dests, name, address)

\* messenger.send_taskunit(tu, address, attrs): the attributes that are sent.
send_taskunit(out, tu, address) ==
    Append(out, [ address |-> address, id |-> tu.id, job_id |-> tu.job_id,
                  data |-> tu.data, processor |-> tu.processor ])

(***************************************************************************)
(* Master.worker                                                           *)
(***************************************************************************)
\* The master as Master.__init__ leaves it.
MasterInit ==
    /\ pc = "polling"
    /\ error = "none"
    /\ slave_nodes = <<>>
    /\ scheduler = <<>>
    /\ destinations = <<>>
    /\ outbound = <<>>
    /\ jobs = <<>>
    /\ nmsgs = 0
    /\ arrived = {}
    /\ late_registration = FALSE
    /\ decisions = <<>>

Init ==
    /\ pc = "polling"
    /\ error = "none"
    /\ slave_nodes = <<>>
    /\ scheduler = <<>>
    /\ destinations = <<>>
    /\ outbound = <<>>
    /\ jobs = <<>>
    /\ nmsgs = 0
    /\ arrived = {}
    /\ late_registration = FALSE
    /\ decisions = <<>>
    /\ split_run = NotRun
    /\ id_run = NotRun
    /\ combiner_run = NotRun

\* A message was received while the loop is running.
Received ==
    /\ pc = "polling"
    /\ nmsgs < MaxMsgs
    /\ nmsgs' = nmsgs + 1
    /\ UNCHANGED << split_run, id_run, combiner_run >>

\* receive() returned no message: sleep and poll again.
PollEmpty ==
    /\ pc = "polling"
    /\ UNCHANGED vars

\* Registration that leaves the scheduler alone.
RegisterSlaveNoMachine(address) ==
    [ slave_nodes |-> Append(slave_nodes, RemoteNode(address)),
      scheduler |-> scheduler,
      destinations |-> register_destination(destinations, "slave1", address) ]

\* Registration that skips an address that is already in the worker list.
RegisterSlaveOnce(address) ==
    IF \E i \in 1..Len(slave_nodes) : slave_nodes[i].address = address
    THEN [ slave_nodes |-> slave_nodes, scheduler |-> scheduler,
           destinations |-> destinations ]
    ELSE [ slave_nodes |-> Append(slave_nodes, RemoteNode(address)),
           scheduler |-> add_machine(scheduler),
           destinations |-> register_destination(destinations, "slave1", address) ]

\* Lines 79-81: the three registration calls.
RegisterSlave(address) ==
    [ slave_nodes |-> Append(slave_nodes, RemoteNode(address)),
      scheduler |-> add_machine(scheduler),
      destinations |-> register_destination(destinations, "slave1", address) ]

\* A STATUS branch without the test of line 78: any status registers.
HandleStatusAnyStatus(address, status) ==
    /\ Received
    /\ slave_nodes' = Append(slave_nodes, RemoteNode(address))
    /\ scheduler' = add_machine(scheduler)
    /\ destinations' = register_destination(destinations, "slave1", address)
    /\ late_registration' = (late_registration \/ SeqSum(scheduler) > 0)
    /\ UNCHANGED << pc, error, outbound, jobs, arrived, decisions >>

\* Lines 73-81: a STATUS message.
HandleStatus(address, status) ==
    /\ Received
    /\ IF status = STATE_UP
       THEN LET r == RegisterSlave(address)
            IN /\ slave_nodes' = r.slave_nodes
               /\ scheduler' = r.scheduler
               /\ destinations' = r.destinations
               /\ late_registration' = (late_registration \/ SeqSum(scheduler) > 0)
       ELSE UNCHANGED << slave_nodes, scheduler, destinations, late_registration >>
    /\ UNCHANGED << pc, error, outbound, jobs, arrived, decisions >>

\* A dispatch loop that schedules every unit but sends a unit only when its
\* id is not in the job's map yet.
RECURSIVE DispatchLoopSendNew(_, _, _)
DispatchLoopSendNew(units, job_id, st) ==
    IF units = <<>> \/ st.error # "none" THEN st
    ELSE LET taskunit_id == compute_taskunit_id(Head(units).data, Head(units).processor)
             tu == [Head(units) EXCEPT !.id = taskunit_id, !.job_id = job_id]
             taskunits == DictPut(st.taskunits, tu.id, tu)
             next_slave == schedule_job(st.scheduler)
         IN IF ~next_slave.ok \/ next_slave.index >= Len(slave_nodes)
            THEN [st EXCEPT !.taskunits = taskunits, !.error = "NoSlaveError"]
            ELSE LET slave_address == get_node_address(slave_nodes[next_slave.index + 1])
                 IN DispatchLoopSendNew(Tail(units), job_id,
                        [ taskunits |-> taskunits,
                          scheduler |-> next_slave.loads,
                          outbound |-> IF tu.id \in DOMAIN st.taskunits
                                       THEN st.outbound
                                       ELSE send_taskunit(st.outbound, tu, slave_address),
                          decisions |-> Append(st.decisions,
                                [ loads |-> st.scheduler, index |-> next_slave.index,
                                  after |-> next_slave.loads,
                                  nslaves |-> Len(slave_nodes) ]),
                          error |-> "none" ])

\* Lines 87-105: the loop over the units the splitter yields.  st carries the
\* job's task unit map, the scheduler loads and the sends made so far; the
\* loop stops at the first unit for which lines 99-100 raise.
RECURSIVE DispatchLoop(_, _, _)
DispatchLoop(units, job_id, st) ==
    IF units = <<>> \/ st.error # "none" THEN st
    ELSE LET taskunit_id == compute_taskunit_id(Head(units).data, Head(units).processor)
             tu == [Head(units) EXCEPT !.id = taskunit_id, !.job_id = job_id]
             taskunits == DictPut(st.taskunits, tu.id, tu)
             next_slave == schedule_job(st.scheduler)
         IN IF ~next_slave.ok \/ next_slave.index >= Len(slave_nodes)
            THEN [st EXCEPT !.taskunits = taskunits, !.error = "NoSlaveError"]
            ELSE LET slave_address == get_node_address(slave_nodes[next_slave.index + 1])
                 IN DispatchLoop(Tail(units), job_id,
                        [ taskunits |-> taskunits,
                          scheduler |-> next_slave.loads,
                          outbound |-> send_taskunit(st.outbound, tu, slave_address),
                          decisions |-> Append(st.decisions,
                                [ loads |-> st.scheduler, index |-> next_slave.index,
                                  after |-> next_slave.loads,
                                  nslaves |-> Len(slave_nodes) ]),
                          error |-> "none" ])

\* The pending count taken from the units yielded instead of the map.
pending_count_yielded(taskunits, units) == Len(units)

\* Line 106: len(j.taskunits).
pending_count(taskunits, units) == Cardinality(DOMAIN taskunits)

\* Lines 82-106: a JOB message.
HandleJob(id, input_data, processor) ==
    /\ Received
    /\ LET j == Job(id, input_data, processor)
           units == split(j.input_data, j.processor)
           st == DispatchLoop(units, j.id,
                    [ taskunits |-> j.taskunits, scheduler |-> scheduler,
                      outbound |-> outbound, decisions |-> decisions,
                      error |-> "none" ])
       IN /\ scheduler' = st.scheduler
          /\ outbound' = st.outbound
          /\ decisions' = st.decisions
          /\ IF st.error # "none"
             THEN /\ jobs' = DictPut(jobs, j.id, [j EXCEPT !.taskunits = st.taskunits])
                  /\ pc' = "crashed"
                  /\ error' = st.error
             ELSE /\ jobs' = DictPut(jobs, j.id,
                        [j EXCEPT !.taskunits = st.taskunits,
                                  !.pending_set = TRUE,
                                  !.pending_taskunits = pending_count(st.taskunits, units)])
                  /\ UNCHANGED << pc, error >>
    /\ UNCHANGED << slave_nodes, destinations, arrived, late_registration >>

\* dict.values() of a task unit map, as a sequence.
RECURSIVE dict_values(_)
dict_values(d) ==
    IF DOMAIN d = {} THEN <<>>
    ELSE LET k == CHOOSE x \in DOMAIN d : TRUE
         IN << d[k] >> \o dict_values([x \in DOMAIN d \ {k} |-> d[x]])

\* An add_taskunits that assigns the working list instead of extending it.
add_taskunits_assign(combiner, tus) == [combiner EXCEPT !.taskunits = tus]

\* Combiner.add_taskunits: extend the working list.
add_taskunits(combiner, tus) == [combiner EXCEPT !.taskunits = @ \o tus]

\* json.dumps(n, indent=2) of a natural number: its decimal digits.
DigitChars == << "0", "1", "2", "3", "4", "5", "6", "7", "8", "9" >>
RECURSIVE json_dumps(_)
json_dumps(n) ==
    IF n < 10 THEN << DigitChars[n + 1] >>
    ELSE json_dumps(n \div 10) \o << DigitChars[(n % 10) + 1] >>

\* Combiner.combine: sum() of the results raises TypeError when a result is
\* None; otherwise the sum is dumped and written to the result file.
\* ncombine counts the call either way.
combine(combiner) ==
    LET results == [i \in 1..Len(combiner.taskunits) |-> combiner.taskunits[i].result]
        failed == \E i \in 1..Len(results) : results[i] = NoneResult
        combined_result == SeqSum([i \in 1..Len(results) |-> results[i][1]])
    IN [ combiner |-> [combiner EXCEPT !.ncombine = @ + 1],
         error |-> IF failed THEN "TypeError" ELSE "none",
         json_string |-> IF failed THEN <<>> ELSE json_dumps(combined_result) ]

\* Lines 111-119 as they read once line 110 has bound tu to the received
\* unit: the look-ups raise KeyError on an id that is not in the table.
HandleTaskunitResultBound(tu) ==
    /\ Received
    /\ arrived' = arrived \cup {<< tu.job_id, tu.id >>}
    /\ IF tu.job_id \notin DOMAIN jobs \/ tu.id \notin DOMAIN jobs[tu.job_id].taskunits
       THEN /\ pc' = "crashed"
            /\ error' = "KeyError"
            /\ UNCHANGED jobs
       ELSE LET j == jobs[tu.job_id]
                recorded == [j.taskunits EXCEPT ![tu.id].result = << tu.result >>,
                                                ![tu.id].state = tu.state]
                pending == j.pending_taskunits - 1
                j1 == [j EXCEPT !.taskunits = recorded, !.pending_taskunits = pending]
                c == combine(add_taskunits(j.combiner, dict_values(recorded)))
            IN IF pending = 0
               THEN /\ jobs' = [jobs EXCEPT ![tu.job_id] = [j1 EXCEPT !.combiner = c.combiner]]
                    /\ pc' = IF c.error = "none" THEN pc ELSE "crashed"
                    /\ error' = c.error
               ELSE /\ jobs' = [jobs EXCEPT ![tu.job_id] = j1]
                    /\ UNCHANGED << pc, error >>
    /\ UNCHANGED << slave_nodes, scheduler, destinations, outbound, late_registration,
                    decisions >>

\* Lines 107-119: a TASKUNIT_RESULT message.  Line 110 reads the name
\* deserialized_msg, which is bound nowhere in master.py (the received message
\* is msg, line 67): the read raises NameError before any bookkeeping.
HandleTaskunitResult(tu) ==
    /\ Received
    /\ arrived' = arrived \cup {<< tu.job_id, tu.id >>}
    /\ pc' = "crashed"
    /\ error' = "NameError"
    /\ UNCHANGED << slave_nodes, scheduler, destinations, outbound, jobs,
                    late_registration, decisions >>

\* Lines 72-107: a message of any other type matches no branch.
HandleOther(msg_type) ==
    /\ Received
    /\ msg_type \notin {MSG_STATUS, MSG_JOB, MSG_TASKUNIT_RESULT}
    /\ UNCHANGED << pc, error, slave_nodes, scheduler, destinations, outbound,
                    jobs, arrived, late_registration, decisions >>

\* The unit ids and the TASKUNIT_RESULT messages that may arrive.
Lines == UNION { {str_split(d)[i] : i \in 1..Len(str_split(d))} : d \in JobInputs }
UnitIds == { compute_taskunit_id(d, p) : d \in Lines, p \in ProcessorSources }
ResultMsgs == [ id : UnitIds, job_id : JobIds, result : ResultValues, state : ResultStates ]

Next ==
    \/ PollEmpty
    \/ \E address \in Addrs, status \in StatusCodes : HandleStatus(address, status)
    \/ \E id \in JobIds, input_data \in JobInputs, processor \in ProcessorSources :
           HandleJob(id, input_data, processor)
    \/ \E tu \in ResultMsgs : HandleTaskunitResult(tu)
    \/ \E msg_type \in OtherTypes : HandleOther(msg_type)

Spec == Init /\ [][Next]_vars

(***************************************************************************)
(* The id functions on their own                                           *)
(***************************************************************************)
\* Two (data, processor source) pairs whose ids are about to be computed.
IdInit ==
    /\ MasterInit
    /\ split_run = NotRun
    /\ id_run \in { [ done |-> FALSE, x |-> << d1, p1 >>, y |-> << d2, p2 >>,
                       idx |-> NoneId, idy |-> NoneId,
                       job_idx |-> NoneId, job_idy |-> NoneId ] :
                       d1 \in IdTexts, p1 \in IdTexts, d2 \in IdTexts, p2 \in IdTexts }
    /\ combiner_run = NotRun

\* The task unit id of each pair as master.py 90-91 computes it, and the id
\* of the job with that data and processor and the default methods.
IdCall ==
    /\ ~id_run.done
    /\ id_run' = [id_run EXCEPT
            !.idx = compute_taskunit_id(id_run.x[1], id_run.x[2]),
            !.idy = compute_taskunit_id(id_run.y[1], id_run.y[2]),
            !.job_idx = compute_job_id(Str(id_run.x[1]), Str(id_run.x[2]),
                                       Str(SPLIT_CODE), Str(COMBINE_CODE)),
            !.job_idy = compute_job_id(Bytes(str_to_bytes(id_run.y[1])), Str(id_run.y[2]),
                                       Str(SPLIT_CODE), Str(COMBINE_CODE)),
            !.done = TRUE]
    /\ UNCHANGED << master_vars, split_run, combiner_run >>

SpecId == IdInit /\ [][IdCall]_vars

(***************************************************************************)
(* A Combiner on its own                                                   *)
(***************************************************************************)
\* The units handed to add_taskunits: a result of 2, 3 or 5, or none yet.
CombineUnits ==
    { [TaskUnit(<< "a" >>, << "p" >>) EXCEPT !.result = r] :
          r \in { << 2 >>, << 3 >>, << 5 >>, NoneResult } }
CombineBatches == UNION { [1..k -> CombineUnits] : k \in 1..2 }

\* The numeric results of a batch, added up; a missing result adds nothing.
RECURSIVE BatchTotal(_)
BatchTotal(tus) ==
    IF tus = <<>> THEN 0
    ELSE (IF Head(tus).result = NoneResult THEN 0 ELSE Head(tus).result[1])
         + BatchTotal(Tail(tus))

\* Combiner(): nothing added, nothing written.  added_total is the history
\* of the numeric results handed to add_taskunits so far.
CombinerInit ==
    /\ MasterInit
    /\ split_run = NotRun
    /\ id_run = NotRun
    /\ combiner_run = [ done |-> FALSE, combiner |-> Combiner, files |-> <<>>,
                        error |-> "none", added_total |-> 0 ]

\* job.py 143-150: add_taskunits(tus).
CombinerAdd(tus) ==
    /\ combiner_run.error = "none"
    /\ Len(combiner_run.combiner.taskunits) + Len(tus) <= MaxUnits
    /\ combiner_run' = [combiner_run EXCEPT
            !.combiner = add_taskunits(combiner_run.combiner, tus),
            !.added_total = @ + BatchTotal(tus)]
    /\ UNCHANGED << master_vars, split_run, id_run >>

\* job.py 152-170: combine(); the file is written when sum() did not raise.
CombinerCombine ==
    /\ combiner_run.error = "none"
    /\ combiner_run.combiner.ncombine < MaxCombines
    /\ LET c == combine(combiner_run.combiner)
       IN combiner_run' = [combiner_run EXCEPT
              !.combiner = c.combiner,
              !.error = c.error,
              !.files = IF c.error = "none" THEN Append(@, c.json_string) ELSE @,
              !.done = (c.error = "none")]
    /\ UNCHANGED << master_vars, split_run, id_run >>

CombinerNext ==
    \/ \E tus \in CombineBatches : CombinerAdd(tus)
    \/ CombinerCombine

SpecCombiner == CombinerInit /\ [][CombinerNext]_vars

(***************************************************************************)
(* Splitter.split on its own                                               *)
(***************************************************************************)
\* A splitter about to be called on some text with some processor.
SplitInit ==
    /\ MasterInit
    /\ split_run \in { [ done |-> FALSE, input_data |-> t, processor |-> p, units |-> <<>> ] :
                          t \in SplitTexts, p \in ProcessorSources }
    /\ id_run = NotRun
    /\ combiner_run = NotRun

\* job.py 106-121: the call, iterated to its end.
SplitCall ==
    /\ ~split_run.done
    /\ split_run' = [split_run EXCEPT
                        !.units = split(split_run.input_data, split_run.processor),
                        !.done = TRUE]
    /\ UNCHANGED << master_vars, id_run, combiner_run >>

SpecSplit == SplitInit /\ [][SplitCall]_vars

(***************************************************************************)
(* Dispatch bookkeeping                                                    *)
(***************************************************************************)
\* The number of units the splitter yields for a job.
UnitsYielded(j) == Len(split(j.input_data, j.processor))

\* Every unit of job id has had a TASKUNIT_RESULT message received for it.
AllResultsArrived(id) ==
    \A u \in DOMAIN jobs[id].taskunits : << id, u >> \in arrived

\* The message names a job of the table and a unit of that job.
KnownUnit(tu) ==
    /\ tu.job_id \in DOMAIN jobs
    /\ tu.id \in DOMAIN jobs[tu.job_id].taskunits

\* C1: when the JOB handler has finished, having dispatched all K units the
\* splitter yielded, the job's pending_taskunits is K, repeated lines included.
C1_PendingEqualsUnitsDispatched ==
    \A id \in DOMAIN jobs :
        jobs[id].pending_set => jobs[id].pending_taskunits = UnitsYielded(jobs[id])

\* C2: combine() is invoked for a job exactly when its pending_taskunits has
\* reached 0, and exactly once: once the results of all its units have
\* arrived it has been invoked, and never more than once.
C2_CombineExactlyOnce ==
    \A id \in DOMAIN jobs :
        /\ jobs[id].combiner.ncombine <= 1
        /\ (jobs[id].combiner.ncombine = 1 =>
                jobs[id].pending_set /\ jobs[id].pending_taskunits <= 0)
        /\ (jobs[id].pending_set /\ AllResultsArrived(id) =>
                jobs[id].combiner.ncombine = 1)

\* C3: combine() has been invoked for a job only if every unit of the job
\* has its result recorded; a job with a unit whose result never arrived
\* has not been combined, whatever other results arrived.
C3_CombineOnlyWhenAllRecorded ==
    \A id \in DOMAIN jobs :
        jobs[id].combiner.ncombine > 0 =>
            /\ \A u \in DOMAIN jobs[id].taskunits :
                   jobs[id].taskunits[u].result # NoneResult
            /\ AllResultsArrived(id)

\* A job of two units for which a result arrived for one unit and none for
\* the other: it has not been combined.
C3_Witness ==
    \E id \in DOMAIN jobs :
        /\ jobs[id].pending_set
        /\ \E u, v \in DOMAIN jobs[id].taskunits :
               << id, u >> \in arrived /\ << id, v >> \notin arrived
        /\ jobs[id].combiner.ncombine = 0

\* C4: between two message handlings, every job of the table has been split
\* and its pending_taskunits is the number of its units with no result
\* recorded; it is never negative.
C4_PendingCountsUnresulted ==
    pc = "polling" =>
        \A id \in DOMAIN jobs :
            /\ jobs[id].pending_set
            /\ jobs[id].pending_taskunits >= 0
            /\ jobs[id].pending_taskunits =
                   Cardinality({ u \in DOMAIN jobs[id].taskunits :
                                   jobs[id].taskunits[u].result = NoneResult })

\* Between two handlings, a job whose input repeats a line: two units were
\* sent for it and one is pending.
C4_Witness ==
    /\ pc = "polling"
    /\ \E id \in DOMAIN jobs :
           /\ UnitsYielded(jobs[id]) = 2
           /\ jobs[id].pending_taskunits = 1
           /\ Len(outbound) >= 2

\* C5: handling a TASKUNIT_RESULT for a unit of a job of the table records
\* the message's result and state on that unit, decreases that job's
\* pending_taskunits by 1 and changes nothing else.
C5_ResultRecorded ==
    [][ \A tu \in ResultMsgs :
          (HandleTaskunitResult(tu) /\ KnownUnit(tu)) =>
              /\ jobs'[tu.job_id].taskunits[tu.id].result = << tu.result >>
              /\ jobs'[tu.job_id].taskunits[tu.id].state = tu.state
              /\ jobs'[tu.job_id].pending_taskunits =
                     jobs[tu.job_id].pending_taskunits - 1
              /\ \A id \in DOMAIN jobs \ {tu.job_id} : jobs'[id] = jobs[id]
              /\ UNCHANGED << slave_nodes, scheduler >> ]_vars

\* C6: a TASKUNIT_RESULT whose job id or unit id is not in the table is
\* rejected: the loop goes on polling and no job's bookkeeping changes.
C6_UnknownResultRejected ==
    [][ \A tu \in ResultMsgs :
          (HandleTaskunitResult(tu) /\ ~KnownUnit(tu)) =>
              pc' = "polling" /\ jobs' = jobs ]_vars

\* C7: no message puts the master into a terminated state: after every
\* handling the loop is polling again.
C7_LoopStaysAvailable == pc # "crashed"

\* C8: a JOB handled while no worker is registered ends in an error that is
\* surfaced without ending the loop, and no unit is sent.
C8_ZeroWorkersSurfaced ==
    [][ \A id \in JobIds, input_data \in JobInputs, processor \in ProcessorSources :
          (HandleJob(id, input_data, processor) /\ Len(slave_nodes) = 0) =>
              pc' = "polling" /\ outbound' = outbound ]_vars

(***************************************************************************)
(* Registration and scheduling                                             *)
(***************************************************************************)
\* C9: the worker list and the scheduler slots have the same length in every
\* state; a step that changes either is the handling of a STATUS UP, which
\* appends one RemoteNode and one zero slot together; nothing is removed.
C9_SlotPerWorker ==
    /\ Len(slave_nodes) = Len(scheduler)
    /\ [][ /\ Len(slave_nodes') = Len(scheduler')
           /\ Len(slave_nodes') # Len(slave_nodes) \/ Len(scheduler') # Len(scheduler) =>
                  \E address \in Addrs :
                      /\ HandleStatus(address, STATE_UP)
                      /\ slave_nodes' = Append(slave_nodes, RemoteNode(address))
                      /\ scheduler' = Append(scheduler, 0)
           /\ SubSeq(slave_nodes', 1, Len(slave_nodes)) = slave_nodes ]_vars

\* Two workers registered, slots aligned, and units scheduled on both.
C9_Witness ==
    /\ Len(slave_nodes) = 2
    /\ Len(scheduler) = 2
    /\ scheduler[1] > 0 /\ scheduler[2] > 0

\* The spread of the slot loads.
LoadSpread == SeqMax(scheduler) - SeqMin(scheduler)

\* C10 as stated: whenever at least one worker is registered, the largest
\* slot load exceeds the smallest by at most 1.
C10_BalancedAlways == Len(scheduler) >= 1 => LoadSpread <= 1

\* C10 amended: when every worker registered before the first unit was
\* scheduled, the largest slot load exceeds the smallest by at most 1.
C10_BalancedWhenRegisteredFirst ==
    (Len(scheduler) >= 1 /\ ~late_registration) => LoadSpread <= 1

\* Two workers registered first, then three units scheduled.
C10_Witness ==
    /\ ~late_registration
    /\ Len(scheduler) = 2
    /\ SeqSum(scheduler) = 3

(***************************************************************************)
(* Splitting                                                               *)
(***************************************************************************)
\* The number of line separators of a text.
RECURSIVE CountNL(_)
CountNL(s) ==
    IF s = <<>> THEN 0
    ELSE (IF Head(s) = NL THEN 1 ELSE 0) + CountNL(Tail(s))

\* The data of the units, joined with the separator.
RECURSIVE JoinData(_)
JoinData(units) ==
    IF Len(units) = 0 THEN <<>>
    ELSE IF Len(units) = 1 THEN units[1].data
    ELSE units[1].data \o << NL >> \o JoinData(Tail(units))

\* C13: for a text with N separators the default split yields N + 1 units,
\* each with the given processor and a line without separator as data, and
\* the data joined with the separator are the text: the lines in order,
\* empty ones included.
C13_SplitComplete ==
    split_run.done =>
        LET units == split_run.units
        IN /\ Len(units) = CountNL(split_run.input_data) + 1
           /\ JoinData(units) = split_run.input_data
           /\ \A i \in 1..Len(units) :
                  /\ units[i].processor = split_run.processor
                  /\ \A k \in 1..Len(units[i].data) : units[i].data[k] # NL

\* The specification's example: "a\nb\n" gives "a", "b", "".
C13_Witness ==
    /\ split_run.done
    /\ split_run.input_data = << "a", NL, "b", NL >>
    /\ Len(split_run.units) = 3
    /\ split_run.units[1].data = << "a" >>
    /\ split_run.units[2].data = << "b" >>
    /\ split_run.units[3].data = <<>>

(***************************************************************************)
(* Messages that change nothing; repeated registration                     *)
(***************************************************************************)
\* C11: handling a message of a type other than STATUS, JOB and
\* TASKUNIT_RESULT, or a STATUS whose status is not UP, changes neither the
\* job table, the worker list, the scheduler slots, the messenger's
\* destinations and sends, nor raises an error.
C11_OtherMessagesNoOp ==
    [][ ( \/ \E msg_type \in OtherTypes : HandleOther(msg_type)
          \/ \E address \in Addrs, status \in StatusCodes \ {STATE_UP} :
                 HandleStatus(address, status) ) =>
            UNCHANGED << jobs, slave_nodes, scheduler, destinations, outbound,
                         pc, error >> ]_vars

\* Three messages handled of which only two changed anything (a
\* registration and a one-unit job); the loop is polling.
C11_Witness ==
    /\ pc = "polling"
    /\ nmsgs = 3
    /\ Len(slave_nodes) = 1
    /\ Len(outbound) = 1
    /\ Cardinality(DOMAIN jobs) = 1

\* C12: every STATUS UP appends a RemoteNode for its address and a slot,
\* also when the address is in the worker list already.
C12_RegistrationNotIdempotent ==
    [][ \A address \in Addrs :
          HandleStatus(address, STATE_UP) =>
              /\ slave_nodes' = Append(slave_nodes, RemoteNode(address))
              /\ Len(scheduler') = Len(scheduler) + 1
              /\ scheduler'[Len(scheduler')] = 0 ]_vars

\* One address registered twice, and a unit assigned to each of its slots.
C12_Witness ==
    /\ Len(slave_nodes) = 2
    /\ slave_nodes[1].address = slave_nodes[2].address
    /\ Len(scheduler) = 2
    /\ scheduler[1] > 0 /\ scheduler[2] > 0

(***************************************************************************)
(* Identity                                                                *)
(***************************************************************************)
\* C14: the task unit id depends on (data, processor source) only and
\* separates them: equal pairs have equal ids and pairs that differ in
\* either component have different ids; equal job inputs have equal job ids.
C14_IdsSeparate ==
    id_run.done =>
        /\ (id_run.x = id_run.y => id_run.idx = id_run.idy)
        /\ (id_run.x # id_run.y => id_run.idx # id_run.idy)
        /\ (id_run.x = id_run.y => id_run.job_idx = id_run.job_idy)

(***************************************************************************)
(* Combining                                                               *)
(***************************************************************************)
\* The number a decimal text denotes.
RECURSIVE ParseDecimal(_)
ParseDecimal(text) ==
    IF text = <<>> THEN 0
    ELSE ParseDecimal(SubSeq(text, 1, Len(text) - 1)) * 10
         + (CHOOSE d \in 0..9 : DigitChars[d + 1] = text[Len(text)])

\* All units of the working list have a numeric result.
AllNumeric ==
    \A i \in 1..Len(combiner_run.combiner.taskunits) :
        combiner_run.combiner.taskunits[i].result # NoneResult

NewSends == SubSeq(outbound', Len(outbound) + 1, Len(outbound'))
NewDecisions == SubSeq(decisions', Len(decisions) + 1, Len(decisions'))

\* The sends of a step are those of job id with the given input: one per
\* line, in order, each with its id and job id set, its unit in the job's
\* map, and addressed to the worker at the index the scheduler returned.
SendsOfJob(id, input_data, processor) ==
    LET input_lines == str_split(input_data)
    IN /\ Len(outbound') >= Len(outbound)
       /\ SubSeq(outbound', 1, Len(outbound)) = outbound
       /\ Len(NewSends) = Len(input_lines)
       /\ Len(NewDecisions) = Len(input_lines)
       /\ \A i \in 1..Len(NewSends) :
              /\ NewSends[i].data = input_lines[i]
              /\ NewSends[i].id = compute_taskunit_id(input_lines[i], processor)
              /\ NewSends[i].job_id = id
              /\ NewSends[i].id \in DOMAIN jobs'[id].taskunits
              /\ NewDecisions[i].index < Len(slave_nodes)
              /\ NewSends[i].address =
                     slave_nodes[NewDecisions[i].index + 1].address

\* C16: the handling of a JOB message sends every unit the splitter yields
\* exactly once, with id and job_id assigned and the unit stored in the
\* job's map, to the address of the worker at the slot the scheduler
\* returned for it.
C16_EveryUnitSentOnce ==
    [][ \A id \in JobIds, input_data \in JobInputs, processor \in ProcessorSources :
          HandleJob(id, input_data, processor) =>
              SendsOfJob(id, input_data, processor) ]_vars

\* The same for the JOB messages handled while a worker is registered.
DispatchWithWorkers ==
    [][ \A id \in JobIds, input_data \in JobInputs, processor \in ProcessorSources :
          (HandleJob(id, input_data, processor) /\ Len(slave_nodes) >= 1) =>
              SendsOfJob(id, input_data, processor) ]_vars

\* C17: every scheduling decision returns an index below the number of
\* slots and of workers, of a slot whose load is minimal and lower than that
\* of every slot before it, and adds 1 to that slot's load and nothing to
\* the others.
C17_MinLoadDecision ==
    \A n \in 1..Len(decisions) :
        LET d == decisions[n]
        IN /\ d.index \in 0..(Len(d.loads) - 1)
           /\ d.index < d.nslaves
           /\ \A k \in 0..(Len(d.loads) - 1) :
                  /\ d.loads[d.index + 1] <= d.loads[k + 1]
                  /\ (k < d.index => d.loads[d.index + 1] < d.loads[k + 1])
           /\ Len(d.after) = Len(d.loads)
           /\ \A k \in 1..Len(d.loads) :
                  d.after[k] = d.loads[k] + (IF k = d.index + 1 THEN 1 ELSE 0)

\* A worker registered after units were scheduled; one decision took the
\* second slot because the first was loaded more, one broke a tie of two
\* loaded slots in favour of the first.
C17_Witness ==
    /\ late_registration
    /\ \E n \in 1..Len(decisions) :
           /\ Len(decisions[n].loads) = 2
           /\ decisions[n].loads[1] > decisions[n].loads[2]
           /\ decisions[n].index = 1
    /\ \E n \in 1..Len(decisions) :
           /\ Len(decisions[n].loads) = 2
           /\ decisions[n].loads[1] = decisions[n].loads[2]
           /\ decisions[n].loads[1] > 0
           /\ decisions[n].index = 0

\* C18: the handling of a JOB message with id i makes the table's entry for
\* i the received job: its input and processor, a task unit map of units of
\* this input only, none with a result, a fresh combiner, the pending count
\* of this map; the other entries are unchanged, and no step removes an
\* entry.
C18_JobReplacesEntry ==
    [][ /\ DOMAIN jobs \subseteq DOMAIN jobs'
        /\ \A id \in JobIds, input_data \in JobInputs, processor \in ProcessorSources :
             (jobs' # jobs /\ HandleJob(id, input_data, processor)) =>
                 /\ DOMAIN jobs' = DOMAIN jobs \cup {id}
                 /\ jobs'[id].id = id
                 /\ jobs'[id].input_data = input_data
                 /\ jobs'[id].processor = processor
                 /\ jobs'[id].combiner = Combiner
                 /\ DOMAIN jobs'[id].taskunits \subseteq
                        { compute_taskunit_id(str_split(input_data)[i], processor) :
                              i \in 1..Len(str_split(input_data)) }
                 /\ \A u \in DOMAIN jobs'[id].taskunits :
                        /\ jobs'[id].taskunits[u].result = NoneResult
                        /\ jobs'[id].taskunits[u].job_id = id
                 /\ (jobs'[id].pending_set =>
                        jobs'[id].pending_taskunits =
                            Cardinality(DOMAIN jobs'[id].taskunits))
                 /\ \A other \in DOMAIN jobs \ {id} : jobs'[other] = jobs[other] ]_vars

\* Job j1 was received twice: its entry has the one-line input and one unit,
\* while a unit with data "b" had been sent for the earlier j1; j2 is in the
\* table too.
C18_Witness ==
    /\ DOMAIN jobs = {"j1", "j2"}
    /\ jobs["j1"].input_data = << "a" >>
    /\ Cardinality(DOMAIN jobs["j1"].taskunits) = 1
    /\ \E n \in 1..Len(outbound) :
           outbound[n].job_id = "j1" /\ outbound[n].data = << "b" >>

\* C19: the slot loads add up to the number of units dispatched so far, in
\* every state, and no step lowers a slot's load.
C19_LoadsCountDispatched ==
    /\ SeqSum(scheduler) = Len(outbound)
    /\ [][ /\ SeqSum(scheduler') = Len(outbound')
           /\ Len(scheduler') >= Len(scheduler)
           /\ \A i \in 1..Len(scheduler) : scheduler'[i] >= scheduler[i] ]_vars

\* A TASKUNIT_RESULT was received for a job of two units, and the loads
\* still count both.
C19_Witness ==
    /\ arrived # {}
    /\ SeqSum(scheduler) = 2
    /\ Len(outbound) = 2
    /\ \E id \in DOMAIN jobs : \E u \in DOMAIN jobs[id].taskunits : << id, u >> \in arrived

====
